---- MODULE Spec2Model ----
(***************************************************************************)
(* Compressed section support of BFD (bfd/compress.c).                     *)
(*                                                                         *)
(* One section of one bfd is modelled: its mutable fields (size, rawsize,  *)
(* compressed_size, alignment_power, contents, compress_status, the        *)
(* SEC_IN_MEMORY flag), the fixed environment it lives in (name, flags,    *)
(* the bytes backing it on disk, the file size, the bfd's direction,       *)
(* flavour and compression header format), a record of the last call made  *)
(* on it, and how many times each state-entry function has succeeded on    *)
(* it.  Every exported function of compress.c is one action.               *)
(*                                                                         *)
(* Buffers are sequences of bytes (0..255).  A pointer that may be NULL is *)
(* an option: <<>> is NULL and <<b>> is a buffer holding the bytes b.      *)
(***************************************************************************)
EXTENDS Integers, Sequences, FiniteSets, TLC

VARIABLES sec, env, last, aborted, successes

vars == <<sec, env, last, aborted, successes>>

(***************************************************************************)
(* Bounds of the model.                                                    *)
(***************************************************************************)
\* bfd_getb64 and the embedded size field are exact below HugeSize; every
\* larger value is read as HugeSize (larger than any buffer of the model).
HugeSize == 16777216
\* How far past the backing bytes a corrupt section header may declare its size.
ExtraSize == 40
\* The length of the long compressible test buffer.
LongRun == 32
\* The bytes the backing file holds besides the section's.
FileOverhead == 8
\* The successes of one state-entry function on the section are counted up
\* to this many.
MaxSuccesses == 2
\* The longest run of one byte in the buffers the round trip is taken with.
MaxRun == 18
\* The longest compressed input, and the largest output buffer, that
\* decompress_contents is given on its own.
MaxInput == 5
MaxOutput == 4
\* The largest value of the bits above the low 32 of a section size whose
\* payload length is computed on its own.
MaxHigh == 1

(***************************************************************************)
(* Program constants.                                                      *)
(***************************************************************************)
MAX_COMPRESSION_HEADER_SIZE == 24
\* The 12-byte "ZLIB" + 8-byte size overhead of a .zdebug* section.
LEGACY_HEADER_SIZE == 12
\* sizeof (Elf64_External_Chdr): the embedded header of the modelled format.
EMBEDDED_HEADER_SIZE == 24
ELFCOMPRESS_ZLIB == 1

COMPRESS_SECTION_NONE == "COMPRESS_SECTION_NONE"
COMPRESS_SECTION_DONE == "COMPRESS_SECTION_DONE"
DECOMPRESS_SECTION_SIZED == "DECOMPRESS_SECTION_SIZED"

read_direction == "read_direction"
write_direction == "write_direction"
both_direction == "both_direction"

Z_OK == "Z_OK"
Z_STREAM_END == "Z_STREAM_END"
Z_BUF_ERROR == "Z_BUF_ERROR"
Z_DATA_ERROR == "Z_DATA_ERROR"

NULL == <<>>
Buf(b) == <<b>>
Bytes(p) == p[1]

Min(a, b) == IF a < b THEN a ELSE b

RECURSIVE Rep(_, _)
Rep(x, n) == IF n <= 0 THEN <<>> ELSE <<x>> \o Rep(x, n - 1)

Drop(s, n) == IF n >= Len(s) THEN <<>> ELSE SubSeq(s, n + 1, Len(s))
Take(s, n) == IF n >= Len(s) THEN s ELSE SubSeq(s, 1, n)

(***************************************************************************)
(* Big-endian byte fields.                                                 *)
(***************************************************************************)
RECURSIVE AllZero(_)
AllZero(b) == b = <<>> \/ (b[1] = 0 /\ AllZero(Drop(b, 1)))

\* bfd_getb64 (header + 4): the big-endian value of 8 bytes.
bfd_getb64(b) ==
  IF AllZero(Take(b, 5))
  THEN Min(b[6] * 65536 + b[7] * 256 + b[8], HugeSize)
  ELSE HugeSize

\* bfd_putb64: the 8 big-endian bytes of n.
bfd_putb64(n) ==
  <<0, 0, 0, 0, (n \div 16777216) % 256, (n \div 65536) % 256,
    (n \div 256) % 256, n % 256>>

\* bfd_putb32: the 4 big-endian bytes of n.
bfd_putb32(n) ==
  <<(n \div 16777216) % 256, (n \div 65536) % 256, (n \div 256) % 256, n % 256>>

bfd_getb32(b) ==
  IF b[1] = 0
  THEN Min(b[2] * 65536 + b[3] * 256 + b[4], HugeSize)
  ELSE HugeSize

\* startswith (header, "ZLIB")
ZLIB == <<90, 76, 73, 66>>
startswith(b, prefix) == Len(b) >= Len(prefix) /\ Take(b, Len(prefix)) = prefix

\* ISPRINT of safe-ctype.h: the printable ASCII characters, space included.
ISPRINT(c) == c >= 32 /\ c <= 126

(***************************************************************************)
(* The stream primitive (zlib).  A compressed block is the byte ZMAGIC,    *)
(* then run-length pairs (count in 1..255, byte), then the end-of-stream   *)
(* byte 0.  Blocks may follow one another.                                 *)
(***************************************************************************)
ZMAGIC == 120

RECURSIVE RunLen(_, _)
\* The length (at most 255) of the run of b[1] that starts b, below Len(b).
RunLen(b, n) ==
  IF n < Len(b) /\ n < 255 /\ b[n + 1] = b[1] THEN RunLen(b, n + 1) ELSE n

RECURSIVE Deflate(_)
Deflate(b) ==
  IF b = <<>> THEN <<>>
  ELSE LET n == RunLen(b, 1) IN <<n, b[1]>> \o Deflate(Drop(b, n))

\* compress (dest, &destLen, source, sourceLen): one complete block.
compress(source) == <<ZMAGIC>> \o Deflate(source) \o <<0>>

\* compressBound (sourceLen): no block of sourceLen bytes is longer.
compressBound(sourceLen) == 2 * sourceLen + 2

RECURSIVE InflatePairs(_, _, _, _)
\* The run-length pairs of input from position i on, with room bytes of
\* output left and out produced so far.
InflatePairs(input, i, room, out) ==
  IF i > Len(input)
  THEN [rc |-> Z_BUF_ERROR, used |-> Len(input), out |-> out]
  ELSE IF input[i] = 0
  THEN [rc |-> Z_STREAM_END, used |-> i, out |-> out]
  ELSE IF i + 1 > Len(input)
  THEN [rc |-> Z_BUF_ERROR, used |-> Len(input), out |-> out]
  ELSE IF input[i] > room
  THEN [rc |-> Z_BUF_ERROR, used |-> i + 1,
        out |-> out \o Rep(input[i + 1], room)]
  ELSE InflatePairs(input, i + 2, room - input[i],
                    out \o Rep(input[i + 1], input[i]))

\* inflate (&strm, Z_FINISH) on a freshly reset stream: one block of input
\* into at most room bytes.  Z_STREAM_END when the block is complete and
\* fits; with Z_FINISH it never returns Z_OK.
inflate(input, room) ==
  IF input = <<>> THEN [rc |-> Z_BUF_ERROR, used |-> 0, out |-> <<>>]
  ELSE IF input[1] # ZMAGIC THEN [rc |-> Z_DATA_ERROR, used |-> 0, out |-> <<>>]
  ELSE InflatePairs(input, 2, room, <<>>)

RECURSIVE InflateLoop(_, _, _, _)
\* The while loop of decompress_contents: input is what is left of the
\* compressed buffer (avail_in = Len (input)), out what has been written to
\* the output buffer, rc the last zlib return code.
InflateLoop(input, uncompressed_size, out, rc) ==
  IF Len(input) > 0 /\ uncompressed_size - Len(out) > 0 /\ rc = Z_OK
  THEN LET r == inflate(input, uncompressed_size - Len(out))
       IN IF r.rc # Z_STREAM_END
          THEN [rc |-> r.rc, avail_in |-> Len(input) - r.used,
                out |-> out \o r.out]
          ELSE InflateLoop(Drop(input, r.used), uncompressed_size,
                           out \o r.out, Z_OK)
  ELSE [rc |-> rc, avail_in |-> Len(input), out |-> out]

\* decompress_contents (compressed_buffer, compressed_size,
\*                      uncompressed_buffer, uncompressed_size)
decompress_contents(compressed_buffer, uncompressed_size) ==
  LET strm == InflateLoop(compressed_buffer, uncompressed_size, <<>>, Z_OK)
  IN [ok |-> strm.rc = Z_OK /\ uncompressed_size - Len(strm.out) = 0,
      avail_in |-> strm.avail_in,
      out |-> strm.out]

(***************************************************************************)
(* The header codec of the object-file format (bfd.c).                     *)
(***************************************************************************)
\* The embedded header: ch_type, ch_reserved, ch_size, ch_addralign.
RECURSIVE Pow2(_)
Pow2(n) == IF n <= 0 THEN 1 ELSE 2 * Pow2(n - 1)

EmbeddedHeader(ch_type, ch_size, alignment_power) ==
  bfd_putb32(ch_type) \o bfd_putb32(0) \o bfd_putb64(ch_size)
    \o bfd_putb64(Pow2(alignment_power))

LegacyHeader(size) == ZLIB \o bfd_putb64(size)

\* bfd_log2 of a power of two below 256, else -1.
Log2(x) ==
  IF \E k \in 0..7 : Pow2(k) = x THEN CHOOSE k \in 0..7 : Pow2(k) = x ELSE -1

\* bfd_check_compression_header (abfd, contents, sec, &uncompressed_size,
\* &uncompressed_alignment_power): the outputs are written on success only.
bfd_check_compression_header(header) ==
  LET ch_type == bfd_getb32(SubSeq(header, 1, 4))
      ch_size == bfd_getb64(SubSeq(header, 9, 16))
      ch_addralign == bfd_getb64(SubSeq(header, 17, 24))
  IN IF ch_type = ELFCOMPRESS_ZLIB /\ Log2(ch_addralign) >= 0
     THEN [ok |-> TRUE, uncompressed_size |-> ch_size,
           uncompressed_alignment_power |-> Log2(ch_addralign)]
     ELSE [ok |-> FALSE, uncompressed_size |-> 0,
           uncompressed_alignment_power |-> 0]

\* bfd_update_compression_header (abfd, contents, sec): the header of the
\* bfd's output format, recording sec->size and the section alignment.
bfd_update_compression_header(header_size, s) ==
  IF header_size = 0
  THEN LegacyHeader(s.size)
  ELSE EmbeddedHeader(ELFCOMPRESS_ZLIB, s.size, s.alignment_power)

(***************************************************************************)
(* The section, and the collaborators of libbfd the file calls.            *)
(***************************************************************************)
\* bfd_get_compression_header_size (abfd, sec): the embedded header size of
\* the section's own format, or with sec == NULL of the bfd's output format;
\* 0 when the format has no embedded header.
bfd_get_compression_header_size(of_section) ==
  IF of_section THEN env.section_header_size ELSE env.target_header_size

\* Faulty variant: rawsize is preferred whatever the bfd's direction.
SectionSzAnyDirection(s) == IF s.rawsize # 0 THEN s.rawsize ELSE s.size

\* The size bfd_get_section_contents and bfd_get_full_section_contents take
\* the section to have.
SectionSz(s) ==
  IF env.direction # write_direction /\ s.rawsize # 0 THEN s.rawsize ELSE s.size

\* bfd_get_section_contents (abfd, sec, location, 0, count): count bytes of
\* the section from backing storage.  It fails on an I/O error and when
\* count runs past the section or past the bytes the file holds.
bfd_get_section_contents(s, count, io_ok) ==
  [ok |-> io_ok /\ count <= SectionSz(s) /\ count <= Len(env.file),
   data |-> Take(env.file, count)]

\* bfd_set_section_alignment (sec, val)
bfd_set_section_alignment(s, val) == [s EXCEPT !.alignment_power = val]

\* What a call reports: the section it leaves, its return value, the bfd
\* error it set, *ptr on return (bfd_get_full_section_contents), the
\* backing-storage reads, decompress_contents calls and allocations it
\* made, what detection returned through its pointers, whether it ended
\* in abort (), and the uncompressed buffer it committed.
NoDetection ==
  [compressed |-> FALSE, compression_header_size |-> 0,
   uncompressed_size |-> 0, uncompressed_align_pow |-> 0, header |-> <<>>,
   read_ok |-> FALSE]

Result(s) ==
  [sec |-> s, ok |-> TRUE, err |-> "none", out |-> NULL, reads |-> 0,
   inflates |-> 0, mallocs |-> 0, det |-> NoDetection, abort |-> FALSE,
   retval |-> 0, raw |-> NULL]

Fail(s, err) == [Result(s) EXCEPT !.ok = FALSE, !.err = err]

(***************************************************************************)
(* bfd_is_section_compressed_with_header and bfd_is_section_compressed     *)
(***************************************************************************)
\* Faulty variant: the guard is applied to sections of every name.
DebugStrGuardAnyName(name, header) == ISPRINT(header[5])

\* Faulty variant: no guard at all.
DebugStrGuardOff(name, header) == FALSE

\* The false-positive guard: a .debug_str section that starts with the
\* string ZLIB followed by a printable character.
DebugStrGuard(name, header) == name = ".debug_str" /\ ISPRINT(header[5])

\* What the header bytes say once they are read: compressed, and the values
\* stored through compression_header_size_p, uncompressed_size_p and
\* uncompressed_align_pow_p.
CheckHeader(s, compression_header_size, header, read_ok) ==
  LET compressed ==
        IF read_ok
        THEN IF compression_header_size = 0
             THEN startswith(header, ZLIB)
             ELSE TRUE
        ELSE FALSE
      chk == bfd_check_compression_header(header)
      base == [compressed |-> compressed,
               compression_header_size |-> compression_header_size,
               uncompressed_size |-> s.size,
               uncompressed_align_pow |-> 0,
               header |-> IF read_ok THEN header ELSE <<>>,
               read_ok |-> read_ok]
  IN IF ~compressed THEN base
     ELSE IF compression_header_size # 0
     THEN IF chk.ok
          THEN [base EXCEPT !.uncompressed_size = chk.uncompressed_size,
                            !.uncompressed_align_pow =
                               chk.uncompressed_alignment_power]
          ELSE [base EXCEPT !.compression_header_size = -1]
     ELSE IF DebugStrGuard(env.name, header)
     THEN [base EXCEPT !.compressed = FALSE]
     ELSE [base EXCEPT !.uncompressed_size = bfd_getb64(Drop(header, 4))]

\* The section while the header is read: presented as not compressed.
PresentAsNone(s) == [s EXCEPT !.compress_status = COMPRESS_SECTION_NONE]

\* Faulty variant: the section is left as it was presented for the read.
RestoreStatusNever(s, saved) == s

\* The section on return: compress_status restored to the saved value.
RestoreStatus(s, saved) == [s EXCEPT !.compress_status = saved]

bfd_is_section_compressed_with_header(s, io_ok) ==
  LET compression_header_size == bfd_get_compression_header_size(TRUE)
      header_size == IF compression_header_size # 0
                     THEN compression_header_size
                     ELSE LEGACY_HEADER_SIZE
      saved == s.compress_status
      s1 == PresentAsNone(s)
      rd == bfd_get_section_contents(s1, header_size, io_ok)
      det == CheckHeader(s1, compression_header_size, rd.data, rd.ok)
  IN IF compression_header_size > MAX_COMPRESSION_HEADER_SIZE
     THEN [Result(s) EXCEPT !.abort = TRUE, !.ok = FALSE]
     ELSE [Result(RestoreStatus(s1, saved)) EXCEPT
             !.ok = det.compressed, !.det = det, !.reads = 1]

\* Faulty variant: the boolean of detection alone, the sentinel unchecked.
bfd_is_section_compressed_NoSentinel(s, io_ok) ==
  bfd_is_section_compressed_with_header(s, io_ok)

bfd_is_section_compressed(s, io_ok) ==
  LET r == bfd_is_section_compressed_with_header(s, io_ok)
  IN [r EXCEPT !.ok = r.ok /\ r.det.compression_header_size >= 0
                       /\ r.det.uncompressed_size > 0]

(***************************************************************************)
(* bfd_get_full_section_contents                                           *)
(***************************************************************************)
\* Faulty variant: the comparison of the sizes the wrong way round.
FileTruncatedInverted(filesize, sz) ==
  /\ filesize > 0
  /\ filesize > sz
  /\ ~env.linker_created
  /\ env.has_contents
  /\ ~env.mmo

\* PR 24708, PR 24753: the section cannot be this large.
FileTruncated(filesize, sz) ==
  /\ filesize > 0
  /\ filesize < sz
  /\ ~env.linker_created
  /\ env.has_contents
  /\ ~env.mmo

\* case COMPRESS_SECTION_NONE.  p is the caller's *ptr: "null", or "own" for
\* a buffer of the caller's.
GetFullNone(s, sz, p, io_ok, alloc_fail) ==
  LET rd == bfd_get_section_contents(s, sz, io_ok)
      m == IF p = "null" THEN 1 ELSE 0
  IN IF p = "null" /\ FileTruncated(env.filesize, sz)
     THEN Fail(s, "bfd_error_file_truncated")
     ELSE IF p = "null" /\ alloc_fail = 1
     THEN [Fail(s, "bfd_error_no_memory") EXCEPT !.mallocs = 1]
     ELSE IF ~rd.ok
     THEN [Fail(s, "read_failed") EXCEPT !.mallocs = m, !.reads = 1]
     ELSE [Result(s) EXCEPT !.out = Buf(rd.data), !.mallocs = m, !.reads = 1]

\* The section while its compressed bytes are read: rawsize cleared, size
\* set to the compressed size, presented as not compressed.
PresentCompressed(s) ==
  [s EXCEPT !.rawsize = 0, !.size = s.compressed_size,
            !.compress_status = COMPRESS_SECTION_NONE]

\* Faulty variant: compress_status alone is restored.
RestoreSizedStatusOnly(s, save_rawsize, save_size) ==
  [s EXCEPT !.compress_status = DECOMPRESS_SECTION_SIZED]

\* Restore rawsize and size.
RestoreSized(s, save_rawsize, save_size) ==
  [s EXCEPT !.rawsize = save_rawsize, !.size = save_size,
            !.compress_status = DECOMPRESS_SECTION_SIZED]

\* case DECOMPRESS_SECTION_SIZED
GetFullSized(s, sz, p, io_ok, alloc_fail) ==
  LET s1 == PresentCompressed(s)
      rd == bfd_get_section_contents(s1, s.compressed_size, io_ok)
      s2 == RestoreSized(s1, s.rawsize, s.size)
      chs == bfd_get_compression_header_size(TRUE)
      compression_header_size == IF chs = 0 THEN LEGACY_HEADER_SIZE ELSE chs
      dc == decompress_contents(Drop(rd.data, compression_header_size), sz)
      m == IF p = "null" THEN 2 ELSE 1
  IN IF alloc_fail = 1
     THEN [Fail(s, "bfd_error_no_memory") EXCEPT !.mallocs = 1]
     ELSE IF ~rd.ok
     THEN [Fail(s2, "read_failed") EXCEPT !.mallocs = 1, !.reads = 1]
     ELSE IF p = "null" /\ alloc_fail = 2
     THEN [Fail(s2, "bfd_error_no_memory") EXCEPT !.mallocs = 2, !.reads = 1]
     ELSE IF ~dc.ok
     THEN [Fail(s2, "bfd_error_bad_value") EXCEPT
             !.mallocs = m, !.reads = 1, !.inflates = 1]
     ELSE [Result(s2) EXCEPT !.out = Buf(dc.out), !.mallocs = m, !.reads = 1,
                             !.inflates = 1]

\* Faulty variant: a section that is Done is read from backing storage again.
GetFullDoneReread(s, sz, p, alloc_fail) ==
  IF s.contents = NULL THEN Fail(s, "none")
  ELSE IF p = "null" /\ alloc_fail = 1
  THEN [Fail(s, "bfd_error_no_memory") EXCEPT !.mallocs = 1]
  ELSE [Result(s) EXCEPT
          !.out = Buf(Take(env.file, sz)),
          !.reads = 1,
          !.mallocs = IF p = "null" THEN 1 ELSE 0]

\* case COMPRESS_SECTION_DONE.  p may also be "contents": the caller passed
\* sec->contents itself.
GetFullDone(s, sz, p, alloc_fail) ==
  IF s.contents = NULL THEN Fail(s, "none")
  ELSE IF p = "null" /\ alloc_fail = 1
  THEN [Fail(s, "bfd_error_no_memory") EXCEPT !.mallocs = 1]
  ELSE [Result(s) EXCEPT
          !.out = IF p = "contents" THEN s.contents
                  ELSE Buf(Take(Bytes(s.contents), sz)),
          !.mallocs = IF p = "null" THEN 1 ELSE 0]

bfd_get_full_section_contents(s, p, io_ok, alloc_fail) ==
  LET sz == SectionSz(s)
  IN IF sz = 0 THEN Result(s)
     ELSE IF s.compress_status = COMPRESS_SECTION_NONE
     THEN GetFullNone(s, sz, p, io_ok, alloc_fail)
     ELSE IF s.compress_status = DECOMPRESS_SECTION_SIZED
     THEN GetFullSized(s, sz, p, io_ok, alloc_fail)
     ELSE GetFullDone(s, sz, p, alloc_fail)

(***************************************************************************)
(* bfd_cache_section_contents                                              *)
(***************************************************************************)
\* Faulty variant: caching leaves compress_status as it is.
CacheStatusNever(status) == status

\* Faulty variant: caching marks every section Done.
CacheStatusAlways(status) == COMPRESS_SECTION_DONE

CacheStatus(status) ==
  IF status = DECOMPRESS_SECTION_SIZED THEN COMPRESS_SECTION_DONE ELSE status

\* Faulty variant: caching stores the buffer and leaves compress_status.
bfd_cache_section_contents_NoTransition(s, contents) ==
  Result([s EXCEPT !.contents = contents, !.in_memory = TRUE])

bfd_cache_section_contents(s, contents) ==
  Result([s EXCEPT !.compress_status = CacheStatus(s.compress_status),
                   !.contents = contents,
                   !.in_memory = TRUE])

(***************************************************************************)
(* bfd_init_section_decompress_status                                      *)
(***************************************************************************)
\* Faulty variant: the compressed size is not recorded.
SetSizedNoCompressedSize(s, uncompressed_size, uncompressed_alignment_power) ==
  [bfd_set_section_alignment([s EXCEPT !.size = uncompressed_size],
                             uncompressed_alignment_power)
     EXCEPT !.compress_status = DECOMPRESS_SECTION_SIZED]

\* The section set up for decompression: the compressed size recorded, size
\* and alignment those of the uncompressed data.
SetSized(s, uncompressed_size, uncompressed_alignment_power) ==
  [bfd_set_section_alignment([s EXCEPT !.compressed_size = s.size,
                                       !.size = uncompressed_size],
                             uncompressed_alignment_power)
     EXCEPT !.compress_status = DECOMPRESS_SECTION_SIZED]

\* Faulty variant: compress_status is not looked at.
InitDecompressPreconditionNoStatus(s) == s.rawsize = 0 /\ s.contents = NULL

\* What bfd_init_section_decompress_status requires of the section.
InitDecompressPrecondition(s) ==
  /\ s.rawsize = 0
  /\ s.contents = NULL
  /\ s.compress_status = COMPRESS_SECTION_NONE

bfd_init_section_decompress_status(s, io_ok) ==
  LET compression_header_size == bfd_get_compression_header_size(TRUE)
      header_size == IF compression_header_size # 0
                     THEN compression_header_size
                     ELSE LEGACY_HEADER_SIZE
      precondition == InitDecompressPrecondition(s)
      rd == bfd_get_section_contents(s, header_size, io_ok)
      header == rd.data
      chk == bfd_check_compression_header(header)
      uncompressed_size ==
        IF compression_header_size = 0
        THEN bfd_getb64(Drop(header, 4))
        ELSE chk.uncompressed_size
      uncompressed_alignment_power ==
        IF compression_header_size = 0
        THEN 0
        ELSE chk.uncompressed_alignment_power
  IN IF compression_header_size > MAX_COMPRESSION_HEADER_SIZE
     THEN [Result(s) EXCEPT !.abort = TRUE, !.ok = FALSE]
     ELSE IF ~precondition
     THEN Fail(s, "bfd_error_invalid_operation")
     ELSE IF ~rd.ok
     THEN [Fail(s, "bfd_error_invalid_operation") EXCEPT !.reads = 1]
     ELSE IF compression_header_size = 0 /\ ~startswith(header, ZLIB)
     THEN [Fail(s, "bfd_error_wrong_format") EXCEPT !.reads = 1]
     ELSE IF compression_header_size # 0 /\ ~chk.ok
     THEN [Fail(s, "bfd_error_wrong_format") EXCEPT !.reads = 1]
     ELSE [Result(SetSized(s, uncompressed_size,
                           uncompressed_alignment_power))
             EXCEPT !.reads = 1]

(***************************************************************************)
(* bfd_compress_section_contents, bfd_init_section_compress_status and     *)
(* bfd_compress_section                                                    *)
(***************************************************************************)
\* Faulty variant: the no-gain fallback marks the section Done.
KeepUncompressedDone(s, uncompressed_buffer) ==
  [s EXCEPT !.contents = Buf(uncompressed_buffer),
            !.compress_status = COMPRESS_SECTION_DONE]

\* PR binutils/18087: the section whose compression did not make it
\* smaller keeps the uncompressed buffer.
KeepUncompressed(s, uncompressed_buffer) ==
  [s EXCEPT !.contents = Buf(uncompressed_buffer),
            !.compress_status = COMPRESS_SECTION_NONE]

\* Faulty variant: the section keeps buffer and its old size.
KeepCompressedOldSize(s, buffer, compressed_size) ==
  [s EXCEPT !.contents = Buf(buffer),
            !.compress_status = COMPRESS_SECTION_DONE]

\* The section that keeps buffer, compressed_size bytes long.
KeepCompressed(s, buffer, compressed_size) ==
  [s EXCEPT !.contents = Buf(buffer), !.size = compressed_size,
            !.compress_status = COMPRESS_SECTION_DONE]

\* Faulty variant: the alignment of the section is left as it was.
KeepDecompressedNoAlignment(s, buffer, orig_uncompressed_alignment_pow) ==
  [s EXCEPT !.contents = Buf(buffer), !.compress_status = COMPRESS_SECTION_DONE]

\* The section already compressed: its payload decompressed into buffer.
KeepDecompressed(s, buffer, orig_uncompressed_alignment_pow) ==
  [bfd_set_section_alignment(s, orig_uncompressed_alignment_pow) EXCEPT
     !.contents = Buf(buffer), !.compress_status = COMPRESS_SECTION_DONE]

\* The section already compressed, once its header has been looked at.
SizeFromHeader(s, orig_uncompressed_size) ==
  [s EXCEPT !.size = orig_uncompressed_size]

(***************************************************************************)
(* A bfd_size_type value in full: l its bits 0..15, m its bits 16..31 and  *)
(* h the bits above.  An int is the low 32 bits, read as signed.           *)
(***************************************************************************)
Word == 65536

\* The bfd_size_type value of a size n of the model.
Size64Of(n) == [h |-> 0, m |-> n \div Word, l |-> n % Word]

\* v - k for k below Word, modulo 2^32 in its low 32 bits.
SizeMinus(v, k) ==
  IF v.l >= k THEN [v EXCEPT !.l = v.l - k]
  ELSE IF v.m > 0 THEN [v EXCEPT !.m = v.m - 1, !.l = v.l + Word - k]
  ELSE [h |-> v.h - 1, m |-> Word - 1, l |-> v.l + Word - k]

\* (int) v
IntOf(v) == (IF v.m >= Word \div 2 THEN v.m - Word ELSE v.m) * Word + v.l

\* v >= k for k below Word.
SizeAtLeast(v, k) == v.h > 0 \/ v.m > 0 \/ v.l >= k

\* int zlib_size = uncompressed_size - orig_compression_header_size, the
\* header size detection returned turned into 12 when it is 0.
ZlibSize(uncompressed_size, compression_header_size) ==
  IntOf(SizeMinus(uncompressed_size,
                  IF compression_header_size = 0 THEN LEGACY_HEADER_SIZE
                  ELSE compression_header_size))

\* The branch for a section detection found compressed.
CompressAlreadyCompressed(s, r, det, header_size, uncompressed_buffer, uncompressed_size, alloc_fail) ==
  LET orig_compression_header_size ==
        IF det.compression_header_size = 0
        THEN LEGACY_HEADER_SIZE
        ELSE det.compression_header_size
      zlib_size == ZlibSize(Size64Of(uncompressed_size),
                            det.compression_header_size)
      compressed_size == zlib_size + header_size
      orig_uncompressed_size == det.uncompressed_size
      decompress == compressed_size > orig_uncompressed_size
      buffer_size == IF decompress THEN orig_uncompressed_size
                     ELSE compressed_size
      payload == Take(Drop(uncompressed_buffer, orig_compression_header_size),
                      zlib_size)
      s1 == SizeFromHeader(s, orig_uncompressed_size)
      dc == decompress_contents(payload, buffer_size)
      buffer == bfd_update_compression_header(
                  bfd_get_compression_header_size(FALSE), s1) \o payload
  IN IF det.compression_header_size < 0
     THEN [r EXCEPT !.abort = TRUE, !.ok = FALSE]
     ELSE IF alloc_fail = 1
     THEN [r EXCEPT !.ok = FALSE, !.err = "bfd_error_no_memory",
                    !.mallocs = 1]
     ELSE IF decompress
     THEN IF ~dc.ok
          THEN [r EXCEPT !.sec = s1, !.ok = FALSE,
                         !.err = "bfd_error_bad_value", !.mallocs = 1,
                         !.inflates = 1]
          ELSE [r EXCEPT
                  !.sec = KeepDecompressed(s1, dc.out,
                                           det.uncompressed_align_pow),
                  !.retval = orig_uncompressed_size,
                  !.ok = orig_uncompressed_size # 0,
                  !.mallocs = 1, !.inflates = 1]
     ELSE [r EXCEPT !.sec = KeepCompressed(s1, buffer, compressed_size),
                    !.retval = uncompressed_size,
                    !.ok = uncompressed_size # 0, !.mallocs = 1]

\* Faulty variant: the compressed form is kept when it is no larger.
MadeSmallerOrEqual(compressed_size, uncompressed_size) ==
  compressed_size <= uncompressed_size

\* PR binutils/18087: compression made the section smaller.
MadeSmaller(compressed_size, uncompressed_size) ==
  compressed_size < uncompressed_size

\* The branch for a section detection found not compressed.
CompressFresh(s, r, header_size, uncompressed_buffer, uncompressed_size, alloc_fail, z_ok) ==
  LET stream == compress(uncompressed_buffer)
      compressed_size == Len(stream) + header_size
      buffer == bfd_update_compression_header(
                  bfd_get_compression_header_size(FALSE), s) \o stream
  IN IF alloc_fail = 1
     THEN [r EXCEPT !.ok = FALSE, !.err = "bfd_error_no_memory",
                    !.mallocs = 1]
     ELSE IF ~z_ok
     THEN [r EXCEPT !.ok = FALSE, !.err = "bfd_error_bad_value",
                    !.mallocs = 1]
     ELSE IF MadeSmaller(compressed_size, uncompressed_size)
     THEN [r EXCEPT !.sec = KeepCompressed(s, buffer, compressed_size),
                    !.retval = uncompressed_size,
                    !.ok = uncompressed_size # 0, !.mallocs = 1]
     ELSE [r EXCEPT !.sec = KeepUncompressed(s, uncompressed_buffer),
                    !.retval = uncompressed_size,
                    !.ok = uncompressed_size # 0, !.mallocs = 1]

\* bfd_compress_section_contents (abfd, sec, uncompressed_buffer,
\* uncompressed_size): ok is "the return value is not 0".
bfd_compress_section_contents(s, uncompressed_buffer, uncompressed_size, io_ok, alloc_fail, z_ok) ==
  LET target == bfd_get_compression_header_size(FALSE)
      r == [bfd_is_section_compressed_with_header(s, io_ok) EXCEPT
              !.raw = Buf(uncompressed_buffer)]
      header_size == IF target = 0 THEN LEGACY_HEADER_SIZE ELSE target
  IN IF r.abort THEN r
     ELSE IF r.det.compressed
     THEN CompressAlreadyCompressed(r.sec, r, r.det, header_size,
                                    uncompressed_buffer, uncompressed_size,
                                    alloc_fail)
     ELSE CompressFresh(r.sec, r, header_size, uncompressed_buffer,
                        uncompressed_size, alloc_fail, z_ok)

bfd_init_section_compress_status(s, io_ok, io_ok2, alloc_fail, z_ok) ==
  LET uncompressed_size == s.size
      rd == bfd_get_section_contents(s, uncompressed_size, io_ok)
      r == bfd_compress_section_contents(s, rd.data, uncompressed_size,
                                         io_ok2, alloc_fail - 1, z_ok)
  IN IF \/ env.direction # read_direction
        \/ s.size = 0
        \/ s.rawsize # 0
        \/ s.contents # NULL
        \/ s.compress_status # COMPRESS_SECTION_NONE
     THEN Fail(s, "bfd_error_invalid_operation")
     ELSE IF alloc_fail = 1
     THEN [Fail(s, "bfd_error_no_memory") EXCEPT !.mallocs = 1]
     ELSE IF ~rd.ok
     THEN [Fail(s, "read_failed") EXCEPT !.mallocs = 1, !.reads = 1]
     ELSE [r EXCEPT !.reads = r.reads + 1, !.mallocs = r.mallocs + 1]

bfd_compress_section(s, uncompressed_buffer, io_ok, alloc_fail, z_ok) ==
  LET uncompressed_size == s.size
  IN IF \/ env.direction # write_direction
        \/ uncompressed_size = 0
        \/ uncompressed_buffer = NULL
        \/ s.contents # NULL
        \/ s.compressed_size # 0
        \/ s.compress_status # COMPRESS_SECTION_NONE
     THEN Fail(s, "bfd_error_invalid_operation")
     ELSE bfd_compress_section_contents(s, Bytes(uncompressed_buffer),
                                        uncompressed_size, io_ok,
                                        alloc_fail, z_ok)

(***************************************************************************)
(* The sections the model is run on.                                       *)
(***************************************************************************)
\* Uncompressed data: a long run, which compresses well, and 16 distinct
\* bytes, which do not.
RawRun == Rep(97, LongRun)
RawDense == <<1, 2, 3, 4, 5, 6, 7, 8, 9, 10, 11, 12, 13, 14, 15, 16>>
RawSmall == <<97, 98, 99>>
\* .zdebug sections: "ZLIB", the uncompressed size, the stream.
LegacyRun == LegacyHeader(LongRun) \o compress(RawRun)
LegacySmall == LegacyHeader(Len(RawSmall)) \o compress(RawSmall)
LegacyCorrupt == LegacyHeader(10) \o <<ZMAGIC, 4, 97>>
LegacyTwoBlocks ==
  LegacyHeader(5) \o compress(<<97, 97, 97>>) \o compress(<<98, 98>>)
LegacyTrailing == LegacyHeader(3) \o compress(<<97, 97, 97>>) \o <<9, 9>>
LegacyEmpty == LegacyHeader(0)
\* Text that starts with ZLIB and goes on with printable characters.
ZlibText == ZLIB \o <<120, 120, 120, 120, 121, 121, 121, 121, 122, 122, 122, 122>>
\* SHF_COMPRESSED sections: the embedded header, the stream.
EmbeddedRun == EmbeddedHeader(ELFCOMPRESS_ZLIB, LongRun, 2) \o compress(RawRun)
EmbeddedSmall ==
  EmbeddedHeader(ELFCOMPRESS_ZLIB, Len(RawSmall), 1) \o compress(RawSmall)
EmbeddedBad == EmbeddedHeader(7, LongRun, 0) \o compress(RawRun)
\* The same with printable characters in ch_reserved.
EmbeddedReserved ==
  Take(EmbeddedRun, 4) \o <<120, 120, 120, 120>> \o Drop(EmbeddedRun, 8)
Short == <<90, 76, 73, 66, 1>>

Files ==
  {RawRun, RawDense, LegacyRun, LegacySmall, LegacyCorrupt, LegacyTwoBlocks,
   LegacyTrailing, LegacyEmpty, ZlibText, EmbeddedRun, EmbeddedSmall,
   EmbeddedBad, EmbeddedReserved, Short, <<>>}

Directions == {read_direction, write_direction, both_direction}
HeaderSizes == {0, EMBEDDED_HEADER_SIZE}

NoCall ==
  [op |-> "none", p |-> "none", ok |-> TRUE, err |-> "none", out |-> NULL,
   reads |-> 0, inflates |-> 0, mallocs |-> 0, det |-> NoDetection,
   retval |-> 0, raw |-> NULL, pre |-> <<>>]

NewSection(size, rawsize) ==
  [size |-> size, rawsize |-> rawsize, compressed_size |-> 0,
   alignment_power |-> 3, contents |-> NULL,
   compress_status |-> COMPRESS_SECTION_NONE, in_memory |-> FALSE]

\* Sections of every kind of content, in every format, sized as their bytes.
InitFormats ==
  \E file \in Files, name \in {".debug_str", ".debug_info"},
     direction \in Directions, target \in HeaderSizes,
     own \in HeaderSizes :
    /\ env = [name |-> name, file |-> file,
              filesize |-> Len(file) + FileOverhead,
              direction |-> direction, mmo |-> FALSE,
              has_contents |-> TRUE, linker_created |-> FALSE,
              target_header_size |-> target, section_header_size |-> own]
    /\ sec = NewSection(Len(file), 0)

\* Sections whose header declares any size and rawsize, with any flags, in
\* a file whose size is known or not.
InitSizes ==
  \E file \in {LegacySmall}, direction \in Directions :
  \E size \in {0, Len(file), Len(file) + ExtraSize},
     rawsize \in {0, 4, Len(file) + ExtraSize},
     has_contents \in BOOLEAN, linker_created \in BOOLEAN, mmo \in BOOLEAN,
     filesize \in {0, Len(file) + FileOverhead} :
    /\ env = [name |-> ".debug_info", file |-> file, filesize |-> filesize,
              direction |-> direction, mmo |-> mmo,
              has_contents |-> has_contents,
              linker_created |-> linker_created,
              target_header_size |-> 0, section_header_size |-> 0]
    /\ sec = NewSection(size, rawsize)

\* The functions that enter a state of the section's lifecycle.
EntryOps ==
  {"bfd_init_section_decompress_status", "bfd_init_section_compress_status",
   "bfd_compress_section"}

Init ==
  /\ InitFormats \/ InitSizes
  /\ last = NoCall
  /\ aborted = FALSE
  /\ successes = [op \in EntryOps |-> 0]

(***************************************************************************)
(* The calls.                                                              *)
(***************************************************************************)
\* The state after a call that returned r.
Return(op, p, r) ==
  /\ sec' = r.sec
  /\ last' = [op |-> op, p |-> p, ok |-> r.ok, err |-> r.err, out |-> r.out,
              reads |-> r.reads, inflates |-> r.inflates,
              mallocs |-> r.mallocs, det |-> r.det, retval |-> r.retval,
              raw |-> r.raw, pre |-> sec]
  /\ aborted' = r.abort
  /\ successes' = IF op \in EntryOps /\ r.ok
                   THEN [successes EXCEPT ![op] = Min(@ + 1, MaxSuccesses)]
                   ELSE successes
  /\ UNCHANGED env

\* The buffers a caller hands to bfd_get_full_section_contents: none, one
\* of its own, or (of a section that holds its contents) sec->contents.
GetFull ==
  \E p \in {"null", "own", "contents"}, io_ok \in BOOLEAN,
     alloc_fail \in 0..2 :
    /\ ~aborted
    /\ p = "contents" =>
         sec.compress_status = COMPRESS_SECTION_DONE /\ sec.contents # NULL
    /\ Return("bfd_get_full_section_contents", p,
              bfd_get_full_section_contents(sec, p, io_ok, alloc_fail))

\* The buffers a caller caches: NULL, or the bytes the retrieval before
\* returned for the section as it is sized now.
CacheBuffers ==
  {NULL} \cup
  (IF /\ last.op = "bfd_get_full_section_contents"
      /\ last.ok
      /\ last.out # NULL
      /\ last.pre = sec
   THEN {last.out}
   ELSE {})

Cache ==
  \E contents \in CacheBuffers :
    /\ ~aborted
    /\ Return("bfd_cache_section_contents", "none",
              bfd_cache_section_contents(sec, contents))

IsCompressedWithHeader ==
  \E io_ok \in BOOLEAN :
    /\ ~aborted
    /\ Return("bfd_is_section_compressed_with_header", "none",
              bfd_is_section_compressed_with_header(sec, io_ok))

IsCompressed ==
  \E io_ok \in BOOLEAN :
    /\ ~aborted
    /\ Return("bfd_is_section_compressed", "none",
              bfd_is_section_compressed(sec, io_ok))

InitDecompress ==
  \E io_ok \in BOOLEAN :
    /\ ~aborted
    /\ Return("bfd_init_section_decompress_status", "none",
              bfd_init_section_decompress_status(sec, io_ok))

InitCompress ==
  \E io_ok \in BOOLEAN, io_ok2 \in BOOLEAN, alloc_fail \in 0..2,
     z_ok \in BOOLEAN :
    /\ ~aborted
    /\ Return("bfd_init_section_compress_status", "none",
              bfd_init_section_compress_status(sec, io_ok, io_ok2,
                                               alloc_fail, z_ok))

\* The buffers a caller hands to bfd_compress_section: NULL, or sec->size
\* bytes: those of the section on disk, or others.
CompressBuffers ==
  {NULL}
  \cup (IF sec.size > 0 /\ sec.size <= Len(env.file)
        THEN {Buf(Take(env.file, sec.size))} ELSE {})
  \cup (IF sec.size > 0 /\ sec.size < HugeSize
        THEN {Buf(Rep(113, sec.size))} ELSE {})

CompressSection ==
  \E uncompressed_buffer \in CompressBuffers, io_ok \in BOOLEAN,
     alloc_fail \in 0..1, z_ok \in BOOLEAN :
    /\ ~aborted
    /\ Return("bfd_compress_section",
              IF uncompressed_buffer = NULL THEN "null" ELSE "own",
              bfd_compress_section(sec, uncompressed_buffer, io_ok,
                                   alloc_fail, z_ok))

Next ==
  \/ GetFull
  \/ Cache
  \/ IsCompressedWithHeader
  \/ IsCompressed
  \/ InitDecompress
  \/ InitCompress
  \/ CompressSection

Spec == Init /\ [][Next]_vars

(***************************************************************************)
(* The round trip: a buffer is committed to a section of an output bfd     *)
(* (or of an input bfd, from its bytes on disk); the bytes the commit      *)
(* stored are then the backing bytes of a section of an input bfd of the   *)
(* same format, which is set up for decompression and retrieved.  The      *)
(* retrievals are those no I/O error and no allocation failure disturbs.   *)
(***************************************************************************)
\* Buffers of one or two runs, some long enough for a compressed form with
\* either header to be smaller.
RoundTripBuffers ==
  {Rep(97, n) \o Rep(98, m) : n \in 1..MaxRun, m \in 0..MaxRun}

\* env.raw is NULL until the section is reopened, then the buffer the
\* stored bytes were committed from.
InitRoundTrip ==
  /\ \E B \in RoundTripBuffers, name \in {".debug_str", ".debug_info"},
        direction \in {read_direction, write_direction},
        target \in HeaderSizes :
       /\ env = [name |-> name, file |-> B,
                 filesize |-> Len(B) + FileOverhead,
                 direction |-> direction, mmo |-> FALSE,
                 has_contents |-> TRUE, linker_created |-> FALSE,
                 target_header_size |-> target, section_header_size |-> 0,
                 raw |-> NULL]
       /\ sec = NewSection(Len(B), 0)
  /\ last = NoCall
  /\ aborted = FALSE
  /\ successes = [op \in EntryOps |-> 0]

RtCompressSection ==
  \E io_ok \in BOOLEAN, alloc_fail \in 0..1, z_ok \in BOOLEAN :
    /\ env.raw = NULL
    /\ Return("bfd_compress_section", "own",
              bfd_compress_section(sec, Buf(env.file), io_ok, alloc_fail,
                                   z_ok))

RtInitCompress ==
  \E io_ok \in BOOLEAN, io_ok2 \in BOOLEAN, alloc_fail \in 0..2,
     z_ok \in BOOLEAN :
    /\ env.raw = NULL
    /\ Return("bfd_init_section_compress_status", "none",
              bfd_init_section_compress_status(sec, io_ok, io_ok2,
                                               alloc_fail, z_ok))

\* The stored section written out and opened again: its backing bytes and
\* size are the contents and size the commit left.
RtReopen ==
  /\ env.raw = NULL
  /\ last.op \in {"bfd_compress_section", "bfd_init_section_compress_status"}
  /\ last.ok
  /\ sec.compress_status = COMPRESS_SECTION_DONE
  /\ ~last.det.compressed
  /\ env' = [env EXCEPT !.file = Bytes(sec.contents),
                        !.filesize = Len(Bytes(sec.contents)) + FileOverhead,
                        !.direction = read_direction,
                        !.section_header_size = env.target_header_size,
                        !.raw = last.raw]
  /\ sec' = [NewSection(sec.size, 0) EXCEPT !.alignment_power = 0]
  /\ last' = NoCall
  /\ aborted' = FALSE
  /\ successes' = [op \in EntryOps |-> 0]

RtInitDecompress ==
  /\ env.raw # NULL
  /\ Return("bfd_init_section_decompress_status", "none",
            bfd_init_section_decompress_status(sec, TRUE))

RtGetFull ==
  \E p \in {"null", "own"} :
    /\ env.raw # NULL
    /\ Return("bfd_get_full_section_contents", p,
              bfd_get_full_section_contents(sec, p, TRUE, 0))

NextRoundTrip ==
  \/ RtCompressSection
  \/ RtInitCompress
  \/ RtReopen
  \/ RtInitDecompress
  \/ RtGetFull

SpecRoundTrip == InitRoundTrip /\ [][NextRoundTrip]_vars

(***************************************************************************)
(* decompress_contents on its own: every short input over a few bytes      *)
(* values, and one or two complete blocks with or without bytes after      *)
(* them, into an output buffer of every small size.                        *)
(***************************************************************************)
StreamBytes == {0, 1, 2, 97, ZMAGIC}

RECURSIVE StreamsUpTo(_)
StreamsUpTo(n) ==
  IF n = 0 THEN {<<>>}
  ELSE LET shorter == StreamsUpTo(n - 1)
       IN shorter \cup {Append(b, x) : b \in shorter, x \in StreamBytes}

BlockSequences ==
  LET plain == {<<97>>, <<97, 97>>, <<97, 98>>}
      tails == {<<>>, <<9, 9>>, <<ZMAGIC, 1>>}
  IN {compress(a) \o tail : a \in plain, tail \in tails}
     \cup {compress(a) \o compress(b) \o tail :
             a \in plain, b \in plain, tail \in tails}

InitDecompressContents ==
  /\ \E compressed_buffer \in StreamsUpTo(MaxInput) \cup BlockSequences,
        uncompressed_size \in 0..MaxOutput :
       env = [compressed_buffer |-> compressed_buffer,
              uncompressed_size |-> uncompressed_size]
  /\ sec = NewSection(0, 0)
  /\ last = NoCall
  /\ aborted = FALSE
  /\ successes = [op \in EntryOps |-> 0]

DecompressContents ==
  /\ last.op = "none"
  /\ LET r == decompress_contents(env.compressed_buffer,
                                  env.uncompressed_size)
     IN last' = [op |-> "decompress_contents", ok |-> r.ok,
                 avail_in |-> r.avail_in, out |-> r.out]
  /\ UNCHANGED <<sec, env, aborted, successes>>

SpecDecompress == InitDecompressContents /\ [][DecompressContents]_vars

(***************************************************************************)
(* The payload length of the commit on its own: a section detection found  *)
(* compressed, so one whose header was read, of every size around the      *)
(* header sizes and around the powers of two where the arithmetic wraps.   *)
(***************************************************************************)
PayloadSizes ==
  {[h |-> h, m |-> m, l |-> l] :
     h \in 0..MaxHigh,
     m \in {0, 1, Word \div 2 - 1, Word \div 2, Word - 1},
     l \in {0, LEGACY_HEADER_SIZE - 1, LEGACY_HEADER_SIZE,
            EMBEDDED_HEADER_SIZE - 1, EMBEDDED_HEADER_SIZE,
            EMBEDDED_HEADER_SIZE + LEGACY_HEADER_SIZE, Word - 1}}

InitPayload ==
  /\ \E uncompressed_size \in PayloadSizes,
        compression_header_size \in HeaderSizes :
       /\ SizeAtLeast(uncompressed_size,
                      IF compression_header_size = 0 THEN LEGACY_HEADER_SIZE
                      ELSE compression_header_size)
       /\ env = [uncompressed_size |-> uncompressed_size,
                 compression_header_size |-> compression_header_size]
  /\ sec = NewSection(0, 0)
  /\ last = NoCall
  /\ aborted = FALSE
  /\ successes = [op \in EntryOps |-> 0]

PayloadLength ==
  /\ last.op = "none"
  /\ last' = [op |-> "zlib_size",
              zlib_size |-> ZlibSize(env.uncompressed_size,
                                     env.compression_header_size)]
  /\ UNCHANGED <<sec, env, aborted, successes>>

SpecPayload == InitPayload /\ [][PayloadLength]_vars

(***************************************************************************)
(* Properties.                                                             *)
(***************************************************************************)
GET_FULL == "bfd_get_full_section_contents"
CommitOps == {"bfd_compress_section", "bfd_init_section_compress_status"}
OutBytes(p) == IF p = NULL THEN <<>> ELSE Bytes(p)

\* C1 as stated: between calls, sec->contents is non-NULL if and only if
\* compress_status is COMPRESS_SECTION_DONE.
C1_ContentsIffDone ==
  (sec.contents # NULL) <=> (sec.compress_status = COMPRESS_SECTION_DONE)

\* C1 amended: between calls, a section that is DECOMPRESS_SECTION_SIZED has
\* NULL contents, and a section a commit has just put in
\* COMPRESS_SECTION_DONE has non-NULL contents.  (Contents can be non-NULL
\* in COMPRESS_SECTION_NONE: after the no-gain fallback, and after
\* bfd_cache_section_contents on a section that is not compressed.)
C1_ContentsByStatus ==
  /\ sec.compress_status = DECOMPRESS_SECTION_SIZED => sec.contents = NULL
  /\ (/\ last.op \in CommitOps
      /\ last.ok
      /\ sec.compress_status = COMPRESS_SECTION_DONE) => sec.contents # NULL

\* C1 witness: a commit has stored a compressed section.
C1_Witness ==
  /\ last.op = "bfd_compress_section"
  /\ last.ok
  /\ sec.compress_status = COMPRESS_SECTION_DONE
  /\ sec.contents # NULL

\* C2: compress_status changes only from None to DecompressSized in
\* bfd_init_section_decompress_status, from DecompressSized to Done in
\* bfd_cache_section_contents and from None to Done in a commit; Done is
\* never left.
C2_StatusSteps ==
  [][\/ sec'.compress_status = sec.compress_status
     \/ /\ sec.compress_status = COMPRESS_SECTION_NONE
        /\ sec'.compress_status = DECOMPRESS_SECTION_SIZED
        /\ last'.op = "bfd_init_section_decompress_status"
     \/ /\ sec.compress_status = DECOMPRESS_SECTION_SIZED
        /\ sec'.compress_status = COMPRESS_SECTION_DONE
        /\ last'.op = "bfd_cache_section_contents"
     \/ /\ sec.compress_status = COMPRESS_SECTION_NONE
        /\ sec'.compress_status = COMPRESS_SECTION_DONE
        /\ last'.op \in CommitOps]_vars

\* C2 witness: a section that went from DecompressSized to Done in
\* bfd_cache_section_contents.
C2_Witness ==
  /\ last.op = "bfd_cache_section_contents"
  /\ last.pre.compress_status = DECOMPRESS_SECTION_SIZED
  /\ sec.compress_status = COMPRESS_SECTION_DONE

\* The no-gain case of a commit: the section was not found compressed and
\* header plus stream is not smaller than the uncompressed buffer.
TargetHeaderSize ==
  IF env.target_header_size = 0 THEN LEGACY_HEADER_SIZE
  ELSE env.target_header_size

NoGain ==
  /\ ~last.det.compressed
  /\ Len(compress(Bytes(last.raw))) + TargetHeaderSize >= Len(Bytes(last.raw))

\* C3 as stated: every successful commit leaves the section Done with the
\* final buffer as contents; in the no-gain fallback the section is Done,
\* its contents the original bytes and its size raw_size.
C3_CommitEndsDone ==
  (last.op \in CommitOps /\ last.ok) =>
    /\ sec.compress_status = COMPRESS_SECTION_DONE
    /\ sec.contents # NULL
    /\ NoGain => sec.contents = last.raw /\ sec.size = last.pre.size

\* C3 amended: every successful commit leaves the final buffer as contents,
\* sec->size bytes long; the section is COMPRESS_SECTION_DONE except in
\* the no-gain fallback, where it stays COMPRESS_SECTION_NONE with the
\* original bytes as contents and size equal to raw_size.
C3_CommitResult ==
  (last.op \in CommitOps /\ last.ok) =>
    /\ sec.contents # NULL
    /\ Len(Bytes(sec.contents)) = sec.size
    /\ IF NoGain
       THEN /\ sec.compress_status = COMPRESS_SECTION_NONE
            /\ sec.contents = last.raw
            /\ sec.size = last.pre.size
       ELSE sec.compress_status = COMPRESS_SECTION_DONE

\* C3 witness: a commit that took the no-gain fallback.
C3_Witness ==
  /\ last.op \in CommitOps
  /\ last.ok
  /\ NoGain
  /\ sec.contents = last.raw

\* A retrieval from a section that was Done and held its contents.
DoneRetrieval ==
  /\ last.op = GET_FULL
  /\ last.pre.compress_status = COMPRESS_SECTION_DONE
  /\ last.pre.contents # NULL

\* C4 as stated: once a section is Done with non-NULL contents, every
\* bfd_get_full_section_contents succeeds, returns the bytes of contents,
\* and makes no backing-storage read and no decompress_contents call.
C4_DoneRetrievalSucceeds ==
  DoneRetrieval =>
    /\ last.ok
    /\ OutBytes(last.out) = Take(Bytes(last.pre.contents), SectionSz(last.pre))
    /\ last.reads = 0
    /\ last.inflates = 0

\* C4 amended: once a section is Done with non-NULL contents, every
\* bfd_get_full_section_contents makes no backing-storage read and no
\* decompress_contents call and leaves the section as it was; it succeeds,
\* returning the bytes of contents (contents itself when the caller passed
\* that buffer; *ptr NULL, no bytes, when the section's size is 0), unless
\* the caller passed no buffer and bfd_malloc of the destination failed.
C4_DoneRetrieval ==
  DoneRetrieval =>
    /\ last.reads = 0
    /\ last.inflates = 0
    /\ sec = last.pre
    /\ last.ok \/ (last.p = "null" /\ last.err = "bfd_error_no_memory")
    /\ last.ok =>
         OutBytes(last.out) = Take(Bytes(sec.contents), SectionSz(sec))
    /\ (last.ok /\ last.p = "contents" /\ SectionSz(sec) # 0) =>
         last.out = sec.contents

\* C4 witness: a retrieval, into a fresh buffer, of the decompressed bytes
\* cached on a section that had been DecompressSized.
C4_Witness ==
  /\ DoneRetrieval
  /\ last.ok
  /\ last.out # NULL
  /\ last.p = "null"
  /\ sec.in_memory
  /\ sec.compressed_size # 0

\* C5: a call that returns failure leaves every field of the section as it
\* was before the call.
C5_FailureChangesNothing ==
  (/\ last.op \in CommitOps \cup {GET_FULL, "bfd_init_section_decompress_status"}
   /\ ~last.ok) => sec = last.pre

\* C6 as stated: for a section with sec->size 0, in every compress_status,
\* direction and rawsize, bfd_get_full_section_contents returns success
\* with *ptr NULL.
C6_ZeroSizeAnyRawsize ==
  (last.op = GET_FULL /\ last.pre.size = 0) => last.ok /\ last.out = NULL

\* C6 amended: for a section with sec->size 0 whose rawsize is 0 or whose
\* bfd is open for write (so that the size retrieval uses is 0), in every
\* compress_status, bfd_get_full_section_contents returns success with
\* *ptr NULL, without reading or allocating; likewise whenever the size it
\* uses (rawsize, when nonzero and the bfd is not open for write) is 0.
C6_ZeroSize ==
  (/\ last.op = GET_FULL
   /\ last.pre.size = 0
   /\ last.pre.rawsize = 0 \/ env.direction = write_direction) =>
    /\ last.ok
    /\ last.out = NULL
    /\ last.reads = 0
    /\ last.mallocs = 0
    /\ sec = last.pre

\* C6 witness: the retrieval of a DecompressSized section of size 0.
C6_Witness ==
  /\ last.op = GET_FULL
  /\ last.pre.size = 0
  /\ last.pre.compress_status = DECOMPRESS_SECTION_SIZED
  /\ last.ok
  /\ last.out = NULL

\* A retrieval from a section larger than its file, with contents on disk.
OversizedRetrieval ==
  /\ last.op = GET_FULL
  /\ env.filesize > 0
  /\ last.pre.size > env.filesize
  /\ SectionSz(last.pre) > env.filesize
  /\ env.has_contents
  /\ ~env.linker_created
  /\ ~env.mmo

\* C7 as stated: every retrieval from a section larger than its file, with
\* SEC_HAS_CONTENTS set and SEC_LINKER_CREATED clear, fails with
\* bfd_error_file_truncated before anything is allocated or read, with or
\* without a buffer of the caller's and in every compress_status.
C7_TruncationAlways ==
  OversizedRetrieval =>
    /\ ~last.ok
    /\ last.err = "bfd_error_file_truncated"
    /\ last.mallocs = 0
    /\ last.reads = 0

\* C7 amended: a retrieval from a COMPRESS_SECTION_NONE section for which
\* the caller passed no buffer, whose size (rawsize, when nonzero and the
\* bfd is not open for write, else size) is larger than the known (nonzero)
\* file size, with SEC_HAS_CONTENTS set, SEC_LINKER_CREATED clear and a
\* flavour other than MMO, fails with bfd_error_file_truncated before
\* anything is allocated or read.
C7_TruncationGuard ==
  (/\ last.op = GET_FULL
   /\ last.pre.compress_status = COMPRESS_SECTION_NONE
   /\ last.p = "null"
   /\ env.filesize > 0
   /\ (IF env.direction # write_direction /\ last.pre.rawsize # 0
       THEN last.pre.rawsize ELSE last.pre.size) > env.filesize
   /\ env.has_contents
   /\ ~env.linker_created
   /\ ~env.mmo) =>
    /\ ~last.ok
    /\ last.err = "bfd_error_file_truncated"
    /\ last.mallocs = 0
    /\ last.reads = 0
    /\ sec = last.pre

\* C7 witness: a retrieval stopped by the guard.
C7_Witness ==
  /\ last.op = GET_FULL
  /\ last.err = "bfd_error_file_truncated"
  /\ last.pre.size > env.filesize

DETECT == "bfd_is_section_compressed_with_header"

\* A detection that read a header starting with "ZLIB" from a section of a
\* format with no embedded header.
LegacyDetection ==
  /\ last.op = DETECT
  /\ env.section_header_size = 0
  /\ last.det.read_ok
  /\ startswith(last.det.header, ZLIB)

\* The sizes whose 8-byte big-endian form the properties compare with.
SmallSizes == 0..(2 * LongRun)

\* C8 as stated: for a format with no embedded header and a section not
\* named .debug_str that starts with "ZLIB" and the 8-byte big-endian N,
\* detection reports compressed, uncompressed size N, alignment power 0 and
\* header size 12.
C8_LegacyHeaderSize12 ==
  (LegacyDetection /\ env.name # ".debug_str") =>
    /\ last.ok
    /\ \A n \in SmallSizes :
         last.det.header = ZLIB \o bfd_putb64(n) =>
           last.det.uncompressed_size = n
    /\ last.det.uncompressed_align_pow = 0
    /\ last.det.compression_header_size = LEGACY_HEADER_SIZE

\* C8 amended: for such a section detection reports compressed,
\* uncompressed size N and alignment power 0, and the header size it
\* returns is 0, the value bfd_get_compression_header_size gave (the
\* commit path turns that 0 into 12).
C8_LegacyDetection ==
  (LegacyDetection /\ env.name # ".debug_str") =>
    /\ last.ok
    /\ \A n \in SmallSizes :
         last.det.header = ZLIB \o bfd_putb64(n) =>
           last.det.uncompressed_size = n
    /\ last.det.uncompressed_align_pow = 0
    /\ last.det.compression_header_size = 0
    /\ sec = last.pre

\* C8 witness: the detection of a .zdebug section of LongRun bytes.
C8_Witness ==
  /\ LegacyDetection
  /\ env.name # ".debug_str"
  /\ last.det.header = ZLIB \o bfd_putb64(LongRun)
  /\ last.det.uncompressed_size = LongRun

\* C9: detection reports "not compressed" for a section named .debug_str
\* whose legacy header starts with "ZLIB" and has a printable byte at
\* offset 4, and "compressed" for a section of another name with the same
\* bytes; with an embedded header the byte at offset 4 plays no part: the
\* section is reported compressed, with the header size the format's check
\* decides.
C9_DebugStrGuard ==
  /\ (LegacyDetection /\ ISPRINT(last.det.header[5])) =>
       (last.ok <=> env.name # ".debug_str")
  /\ (LegacyDetection /\ ~ISPRINT(last.det.header[5])) => last.ok
  /\ (/\ last.op = DETECT
      /\ env.section_header_size # 0
      /\ last.det.read_ok) =>
       /\ last.ok
       /\ last.det.compression_header_size =
            IF bfd_check_compression_header(last.det.header).ok
            THEN env.section_header_size ELSE -1

\* C9 witness: a .debug_str section that starts with ZLIB and a printable
\* byte, reported not compressed.
C9_Witness ==
  /\ LegacyDetection
  /\ env.name = ".debug_str"
  /\ ISPRINT(last.det.header[5])
  /\ ~last.ok

\* A detection whose embedded header the format's check rejected.
EmbeddedMismatch ==
  /\ env.section_header_size # 0
  /\ last.det.read_ok
  /\ ~bfd_check_compression_header(last.det.header).ok

\* C10: on an embedded header the format's check rejects, detection returns
\* true with header size -1 and the section's size as uncompressed size;
\* bfd_is_section_compressed is true only when detection is true, the
\* header size is not negative and the uncompressed size is positive, so
\* it is false then.
C10_Sentinel ==
  /\ (last.op = DETECT /\ EmbeddedMismatch) =>
       /\ last.ok
       /\ last.det.compression_header_size = -1
       /\ last.det.uncompressed_size = last.pre.size
  /\ last.op = "bfd_is_section_compressed" =>
       /\ last.ok <=> /\ last.det.compressed
                      /\ last.det.compression_header_size >= 0
                      /\ last.det.uncompressed_size > 0
       /\ EmbeddedMismatch => ~last.ok /\ last.det.compressed

\* C10 witness: bfd_is_section_compressed false on a rejected header.
C10_Witness ==
  /\ last.op = "bfd_is_section_compressed"
  /\ EmbeddedMismatch
  /\ last.det.compressed
  /\ last.det.compression_header_size = -1
  /\ ~last.ok

INIT_DECOMPRESS == "bfd_init_section_decompress_status"
INIT_COMPRESS == "bfd_init_section_compress_status"
COMPRESS == "bfd_compress_section"

\* The precondition of each state-entry function does not hold of the
\* section and arguments the last call was given.
PreconditionViolated ==
  \/ /\ last.op = INIT_DECOMPRESS
     /\ \/ last.pre.rawsize # 0
        \/ last.pre.contents # NULL
        \/ last.pre.compress_status # COMPRESS_SECTION_NONE
  \/ /\ last.op = COMPRESS
     /\ \/ env.direction # write_direction
        \/ last.pre.size = 0
        \/ last.p = "null"
        \/ last.pre.contents # NULL
        \/ last.pre.compressed_size # 0
        \/ last.pre.compress_status # COMPRESS_SECTION_NONE
  \/ /\ last.op = INIT_COMPRESS
     /\ \/ env.direction # read_direction
        \/ last.pre.size = 0
        \/ last.pre.rawsize # 0
        \/ last.pre.contents # NULL
        \/ last.pre.compress_status # COMPRESS_SECTION_NONE

\* A state-entry call made with its precondition violated has failed with
\* bfd_error_invalid_operation, without reading, and changed nothing.
PreconditionEnforced ==
  PreconditionViolated =>
    /\ ~last.ok
    /\ last.err = "bfd_error_invalid_operation"
    /\ last.reads = 0
    /\ sec = last.pre

\* C11 as stated: a state-entry call made with its precondition violated
\* fails with bfd_error_invalid_operation and changes nothing, and no
\* state-entry function succeeds twice on the same section.
C11_NeverSucceedsTwice ==
  /\ PreconditionEnforced
  /\ \A op \in EntryOps : successes[op] < 2

\* C11 amended: a state-entry call made with its precondition violated
\* fails with bfd_error_invalid_operation and changes nothing;
\* bfd_init_section_decompress_status never succeeds twice on a section,
\* and a commit that has succeeded leaves non-NULL contents, so that the
\* same call repeated at once fails.  (A commit can succeed a second time
\* after the no-gain fallback, which leaves COMPRESS_SECTION_NONE, once
\* bfd_cache_section_contents has stored NULL as contents.)
C11_PreconditionGuards ==
  /\ PreconditionEnforced
  /\ successes[INIT_DECOMPRESS] < 2
  /\ (last.op \in CommitOps /\ last.ok) => sec.contents # NULL
  /\ (last.op \in EntryOps /\ last.ok) =>
       /\ last.pre.contents = NULL
       /\ last.pre.compress_status = COMPRESS_SECTION_NONE
       /\ sec.contents # NULL \/ sec.compress_status # COMPRESS_SECTION_NONE

\* C11 witness: bfd_init_section_decompress_status called again on the
\* section it had set up, refused.
C11_Witness ==
  /\ last.op = INIT_DECOMPRESS
  /\ last.pre.compress_status = DECOMPRESS_SECTION_SIZED
  /\ successes[INIT_DECOMPRESS] = 1
  /\ ~last.ok
  /\ last.err = "bfd_error_invalid_operation"
  /\ sec = last.pre

\* C12: when a commit has stored a non-empty buffer B compressed, with the
\* legacy or the embedded header, a section whose backing bytes and size
\* are the stored contents and size is set up by
\* bfd_init_section_decompress_status with size Len (B), the alignment the
\* header records and compressed_size the stored size, and
\* bfd_get_full_section_contents then returns exactly B and leaves the
\* section as it was.
C12_RoundTrip ==
  env.raw # NULL =>
    /\ (/\ last.op = INIT_DECOMPRESS
        /\ last.pre.compress_status = COMPRESS_SECTION_NONE) =>
         /\ last.ok
         /\ sec.compress_status = DECOMPRESS_SECTION_SIZED
         /\ sec.size = Len(Bytes(env.raw))
         /\ sec.compressed_size = Len(env.file)
         /\ sec.compressed_size < sec.size
    /\ (/\ last.op = GET_FULL
        /\ last.pre.compress_status = DECOMPRESS_SECTION_SIZED) =>
         /\ last.ok
         /\ last.out = env.raw
         /\ sec = last.pre
         /\ sec.size = Len(Bytes(env.raw))

\* C12 witness: a two-run buffer stored with the embedded header has come
\* back from the retrieval.
C12_Witness ==
  /\ env.raw # NULL
  /\ env.section_header_size = EMBEDDED_HEADER_SIZE
  /\ last.op = GET_FULL
  /\ last.pre.compress_status = DECOMPRESS_SECTION_SIZED
  /\ last.ok
  /\ last.out = env.raw
  /\ Bytes(env.raw) = Rep(97, MaxRun) \o Rep(98, MaxRun)

\* The position of the end-of-stream byte of the block whose run-length
\* pairs start at position i of input, or 0 when the block is truncated.
RECURSIVE BlockEnd(_, _)
BlockEnd(input, i) ==
  IF i > Len(input) THEN 0
  ELSE IF input[i] = 0 THEN i
  ELSE IF i + 1 > Len(input) THEN 0
  ELSE BlockEnd(input, i + 2)

\* The bytes the run-length pairs of input from position i up to e stand for.
RECURSIVE BlockText(_, _, _)
BlockText(input, i, e) ==
  IF i >= e THEN <<>>
  ELSE Rep(input[i + 1], input[i]) \o BlockText(input, i + 2, e)

\* input read as complete blocks one after the other: whether it is such a
\* sequence with nothing left over, how many blocks, and their text.
RECURSIVE Blocks(_)
Blocks(input) ==
  IF input = <<>> THEN [ok |-> TRUE, n |-> 0, text |-> <<>>]
  ELSE IF input[1] # ZMAGIC \/ BlockEnd(input, 2) = 0
  THEN [ok |-> FALSE, n |-> 0, text |-> <<>>]
  ELSE LET e == BlockEnd(input, 2)
           rest == Blocks(Drop(input, e))
       IN [ok |-> rest.ok, n |-> rest.n + 1,
           text |-> BlockText(input, 2, e) \o rest.text]

\* C13: decompress_contents returns success if and only if the input is
\* one or more complete blocks one after the other, with no byte left
\* over, whose text is exactly as long as the output buffer.
C13_SuccessIffWholeBlocks ==
  last.op = "decompress_contents" =>
    (last.ok <=>
       LET b == Blocks(env.compressed_buffer)
       IN b.ok /\ b.n >= 1 /\ Len(b.text) = env.uncompressed_size)

\* A commit that found the section already compressed and ended without an
\* error: the length of the header the section had, its payload, and the
\* uncompressed size its header recorded.
Recommit ==
  /\ last.op \in CommitOps
  /\ last.det.compressed
  /\ last.err = "none"
  /\ ~aborted

ExistingHeaderSize ==
  IF last.det.compression_header_size = 0 THEN LEGACY_HEADER_SIZE
  ELSE last.det.compression_header_size

Payload == Drop(Bytes(last.raw), ExistingHeaderSize)

RecordedSize == last.det.uncompressed_size

\* C14: a commit on a section already compressed whose payload plus the
\* target header is larger than the uncompressed size its header records
\* decompresses the payload into a buffer of that size, gives the section
\* the alignment power the header records, and leaves it Done with the
\* decompressed bytes as contents and the recorded size as size, returning
\* that size; otherwise it leaves the section Done and compressed, its size
\* the payload length plus the target header size and its contents the new
\* header followed by the payload unchanged.
C14_BloatFallback ==
  Recommit =>
    /\ sec.compress_status = COMPRESS_SECTION_DONE
    /\ sec.contents # NULL
    /\ IF Len(Payload) + TargetHeaderSize > RecordedSize
       THEN /\ last.inflates = 1
            /\ Len(Bytes(sec.contents)) = RecordedSize
            /\ Bytes(sec.contents) =
                 decompress_contents(Payload, RecordedSize).out
            /\ sec.size = RecordedSize
            /\ sec.alignment_power = last.det.uncompressed_align_pow
            /\ last.retval = RecordedSize
       ELSE /\ last.inflates = 0
            /\ sec.size = Len(Payload) + TargetHeaderSize
            /\ Len(Bytes(sec.contents)) = sec.size
            /\ Drop(Bytes(sec.contents), TargetHeaderSize) = Payload
            /\ Take(Bytes(sec.contents), TargetHeaderSize) =
                 bfd_update_compression_header(
                   env.target_header_size,
                   [last.pre EXCEPT !.size = RecordedSize])
            /\ sec.alignment_power = last.pre.alignment_power
            /\ last.retval = last.pre.size

\* C14 witness: a small section with an embedded header, committed, has
\* been stored decompressed with the alignment its header recorded.
C14_Witness ==
  /\ Recommit
  /\ last.det.compression_header_size = EMBEDDED_HEADER_SIZE
  /\ Len(Payload) + TargetHeaderSize > RecordedSize
  /\ sec.compress_status = COMPRESS_SECTION_DONE
  /\ sec.contents = Buf(RawSmall)
  /\ sec.size = Len(RawSmall)
  /\ sec.alignment_power = 1

\* C15: after a successful commit the size of the section is no larger than
\* the uncompressed size of its data.  A buffer that was not compressed is
\* stored compressed exactly when header plus stream is strictly smaller
\* than the buffer, with that sum as size, and else keeps its size; a
\* section already compressed ends no larger than the uncompressed size
\* its header records.
C15_NeverLarger ==
  (last.op \in CommitOps /\ last.ok) =>
    IF last.det.compressed
    THEN sec.size <= RecordedSize
    ELSE LET raw_size == last.pre.size
             stored == TargetHeaderSize + Len(compress(Bytes(last.raw)))
         IN /\ raw_size = Len(Bytes(last.raw))
            /\ sec.size <= raw_size
            /\ sec.compress_status = COMPRESS_SECTION_DONE <=> stored < raw_size
            /\ stored < raw_size => sec.size = stored
            /\ stored >= raw_size =>
                 sec.size = raw_size /\ sec.contents = last.raw

\* C15 witness: a buffer whose compressed form with its header is exactly
\* as long as the buffer has been kept uncompressed.
C15_Witness ==
  /\ last.op \in CommitOps
  /\ last.ok
  /\ ~last.det.compressed
  /\ TargetHeaderSize + Len(compress(Bytes(last.raw))) = last.pre.size
  /\ sec.size = last.pre.size
  /\ sec.contents = last.raw
  /\ sec.compress_status = COMPRESS_SECTION_NONE

\* C16: bfd_get_full_section_contents returns, on success and on every
\* failure, with compress_status, size, rawsize, compressed_size and
\* contents of the section as they were; a section that was
\* DecompressSized is DecompressSized afterwards, decompressed or not.
C16_RetrievalFrame ==
  last.op = GET_FULL =>
    /\ sec.compress_status = last.pre.compress_status
    /\ sec.size = last.pre.size
    /\ sec.rawsize = last.pre.rawsize
    /\ sec.compressed_size = last.pre.compressed_size
    /\ sec.contents = last.pre.contents
    /\ sec = last.pre

\* C16 witness: a DecompressSized section, its compressed bytes read and
\* decompressed, is still DecompressSized with the sizes it had.
C16_Witness ==
  /\ last.op = GET_FULL
  /\ last.pre.compress_status = DECOMPRESS_SECTION_SIZED
  /\ last.ok
  /\ last.inflates = 1
  /\ last.out = Buf(RawRun)
  /\ sec.compress_status = DECOMPRESS_SECTION_SIZED
  /\ sec.size = LongRun
  /\ sec.compressed_size = Len(env.file)
  /\ sec.compressed_size # sec.size
  /\ sec.contents = NULL

DetectOps == {DETECT, "bfd_is_section_compressed"}

\* C17: bfd_is_section_compressed_with_header and bfd_is_section_compressed
\* return with compress_status, and every other field of the section, as
\* at entry, whether the read of the header succeeded or failed; they make
\* one read, of 12 bytes or of the embedded header size, at most 24 bytes.
C17_DetectionFrame ==
  last.op \in DetectOps =>
    /\ sec.compress_status = last.pre.compress_status
    /\ sec = last.pre
    /\ last.reads = 1
    /\ Len(last.det.header) <= MAX_COMPRESSION_HEADER_SIZE
    /\ last.det.read_ok =>
         Len(last.det.header) =
           IF env.section_header_size = 0 THEN LEGACY_HEADER_SIZE
           ELSE env.section_header_size

\* C17 witness: detection on a DecompressSized section whose header could
\* not be read has left it DecompressSized.
C17_Witness ==
  /\ last.op = DETECT
  /\ last.pre.compress_status = DECOMPRESS_SECTION_SIZED
  /\ ~last.det.read_ok
  /\ ~last.ok
  /\ sec.compress_status = DECOMPRESS_SECTION_SIZED

\* The header bytes of the section the last call was made on, when it is
\* long enough to hold a header.
OwnHeaderSize ==
  IF env.section_header_size = 0 THEN LEGACY_HEADER_SIZE
  ELSE env.section_header_size

HeaderReadable ==
  OwnHeaderSize <= Len(env.file) /\ OwnHeaderSize <= SectionSz(last.pre)

OwnHeader == Take(env.file, OwnHeaderSize)

\* The header is one of a compressed section, in the format's encoding.
Recognized ==
  IF env.section_header_size = 0
  THEN startswith(OwnHeader, ZLIB)
  ELSE bfd_check_compression_header(OwnHeader).ok

\* The uncompressed size and the alignment power the header records.
HeaderRecordsSize ==
  IF env.section_header_size = 0
  THEN bfd_getb64(Drop(OwnHeader, 4))
  ELSE bfd_check_compression_header(OwnHeader).uncompressed_size

HeaderRecordsAlignment ==
  IF env.section_header_size = 0 THEN 0
  ELSE bfd_check_compression_header(OwnHeader).uncompressed_alignment_power

\* A bfd_init_section_decompress_status call whose precondition held, on a
\* section that holds a header.
DecompressSetup ==
  /\ last.op = INIT_DECOMPRESS
  /\ InitDecompressPrecondition(last.pre)
  /\ HeaderReadable

\* C18: bfd_init_section_decompress_status on a section of size S whose
\* header records uncompressed size U and alignment power A (0 for the
\* legacy header) succeeds with compressed_size S, size U, alignment power
\* A and compress_status DECOMPRESS_SECTION_SIZED, without decompressing
\* and with contents NULL; on a header that is not that of a compressed
\* section it fails with bfd_error_wrong_format and changes nothing.  (A
\* header that cannot be read is bfd_error_invalid_operation.)
C18_DecompressSetup ==
  /\ DecompressSetup =>
       \/ /\ ~last.ok
          /\ last.err = "bfd_error_invalid_operation"
          /\ last.reads = 1
          /\ sec = last.pre
       \/ /\ Recognized
          /\ last.ok
          /\ sec.compressed_size = last.pre.size
          /\ sec.size = HeaderRecordsSize
          /\ sec.alignment_power = HeaderRecordsAlignment
          /\ sec.compress_status = DECOMPRESS_SECTION_SIZED
          /\ sec.contents = NULL
          /\ sec.rawsize = 0
          /\ last.inflates = 0
          /\ \A n \in SmallSizes :
               /\ OwnHeader = LegacyHeader(n) => sec.size = n
               /\ \A a \in 0..3 :
                    OwnHeader = EmbeddedHeader(ELFCOMPRESS_ZLIB, n, a) =>
                      sec.size = n /\ sec.alignment_power = a
       \/ /\ ~Recognized
          /\ ~last.ok
          /\ last.err = "bfd_error_wrong_format"
          /\ sec = last.pre
  /\ (last.op = INIT_DECOMPRESS /\ last.ok) => DecompressSetup /\ Recognized
  /\ (last.op = INIT_DECOMPRESS /\ last.err = "bfd_error_wrong_format") =>
       DecompressSetup /\ ~Recognized

\* C18 witness: a section with an embedded header of LongRun bytes and
\* alignment power 2 has been set up.
C18_Witness ==
  /\ DecompressSetup
  /\ last.ok
  /\ OwnHeader = EmbeddedHeader(ELFCOMPRESS_ZLIB, LongRun, 2)
  /\ sec.compressed_size = Len(env.file)
  /\ sec.size = LongRun
  /\ sec.alignment_power = 2
  /\ sec.compress_status = DECOMPRESS_SECTION_SIZED
  /\ sec.contents = NULL

\* C19: between calls a section that is DECOMPRESS_SECTION_SIZED has NULL
\* contents, rawsize 0, and as compressed_size the size the section had
\* when bfd_init_section_decompress_status succeeded on it: that call
\* alone makes a section DecompressSized, recording the size it finds, and
\* compressed_size does not change while the section stays DecompressSized.
C19_SizedSection ==
  /\ [](sec.compress_status = DECOMPRESS_SECTION_SIZED =>
          /\ sec.contents = NULL
          /\ sec.rawsize = 0
          /\ successes[INIT_DECOMPRESS] = 1)
  /\ [][sec'.compress_status = DECOMPRESS_SECTION_SIZED =>
          IF sec.compress_status = DECOMPRESS_SECTION_SIZED
          THEN sec'.compressed_size = sec.compressed_size
          ELSE /\ last'.op = INIT_DECOMPRESS
               /\ last'.ok
               /\ sec'.compressed_size = sec.size]_vars

\* C19 witness: a section set up for decompression, looked at by
\* detection afterwards, still awaits decompression with the compressed
\* size recorded and no contents.
C19_Witness ==
  /\ last.op = "bfd_is_section_compressed"
  /\ sec.compress_status = DECOMPRESS_SECTION_SIZED
  /\ successes[INIT_DECOMPRESS] = 1
  /\ sec.compressed_size = Len(env.file)
  /\ sec.compressed_size # sec.size
  /\ sec.contents = NULL
  /\ sec.rawsize = 0

\* C20: for a section that is COMPRESS_SECTION_NONE with rawsize 0 and NULL
\* contents, whose header can be read, bfd_init_section_decompress_status
\* succeeds if and only if bfd_is_section_compressed_with_header on the
\* same section returns true with a header size that is not negative, and
\* the size it installs is the uncompressed size detection reports; a
\* .debug_str section that starts with ZLIB and a printable byte included.
C20_DetectionAgrees ==
  (DecompressSetup /\ last.err # "bfd_error_invalid_operation") =>
    LET detection == bfd_is_section_compressed_with_header(last.pre, TRUE)
    IN /\ last.ok <=>
            (detection.ok /\ detection.det.compression_header_size >= 0)
       /\ last.ok => sec.size = detection.det.uncompressed_size

\* C21: in a commit on a section detection found compressed, whose header
\* was therefore read from a section at least as long as the header, the
\* payload length zlib_size = raw_size - existing header length is not
\* negative.
C21_PayloadLengthNotNegative ==
  last.op = "zlib_size" => last.zlib_size >= 0

====
